---------------------------- MODULE Spec2Model ----------------------------
(***************************************************************************)
(* The three batch scripts of the repository as one state machine:         *)
(*   generate_statements_unified.py  (script = "generate")                 *)
(*   format_results_unified.py       (script = "format")                   *)
(*   evaluate_diversity.py           (script = "evaluate"), and its two    *)
(*   pure helpers run on their own: calculate_semantic_diversity           *)
(*   (script = "diversity") and parse_filename (script = "parse").         *)
(* A behaviour is one run of one script; Init chooses the script and its   *)
(* inputs.  Text (file names, method names, topic ids) is a sequence of    *)
(* one-character strings, so that formatting is concatenation and parsing  *)
(* is searching and cutting, as in the Python.                             *)
(***************************************************************************)
EXTENDS Integers, Sequences, FiniteSets, TLC

VARIABLES
    script,            \* which script this behaviour runs
    gen_arg,           \* generate: args.shot_type
    gen_readable,      \* generate: shot types whose prompt files can be read
    gen_pc,            \* generate: position in main
    gen_si,            \* generate: index into shot_types
    gen_ti,            \* generate: index into TOPICS
    gen_mi,            \* generate: index into methods
    gen_methods,       \* generate: methods = get_methods(shot_type)
    gen_attempts,      \* generate: the combinations whose loop body has run
    gen_written,       \* generate: the output files written so far
    gen_outcome,       \* generate: what the last API call returned
    fmt_filter,        \* format: shot_filter
    fmt_pc,            \* format: position in display_results
    fmt_ti,            \* format: index into TOPIC_INFO
    fmt_gi,            \* format: index into method_groups
    fmt_mi,            \* format: index into the group's methods
    fmt_lines,         \* format: lines
    fmt_looked,        \* format: the file names handed to filepath.exists()
    div_reasons,       \* diversity: the argument reasons
    div_embeddings,    \* diversity: embeddings
    div_pairs,         \* diversity: the (i, j) the for loop has bound
    div_distances,     \* diversity: distances
    div_result,        \* diversity: the return value
    div_pc,            \* diversity: position in calculate_semantic_diversity
    parse_input,       \* parse: the argument filename
    parse_result,      \* parse: the returned tuple
    ev_dir,            \* evaluate: the outputs directory, name -> contents
    ev_files,          \* evaluate: json_files, sorted
    ev_idx,            \* evaluate: position in json_files
    all_scores,        \* evaluate: all_scores
    results_by_topic,  \* evaluate: results_by_topic
    ev_pc,             \* evaluate: position in main
    ev_log,            \* evaluate: the outputs main has produced, in order
    chart_bars         \* evaluate: the bars drawn, (topic, approach) -> height

vars == <<script, gen_arg, gen_readable, gen_pc, gen_si, gen_ti, gen_mi,
          gen_methods, gen_attempts, gen_written, gen_outcome,
          fmt_filter, fmt_pc, fmt_ti, fmt_gi, fmt_mi, fmt_lines, fmt_looked,
          div_reasons, div_embeddings, div_pairs, div_distances, div_result,
          div_pc, parse_input, parse_result,
          ev_dir, ev_files, ev_idx, all_scores, results_by_topic, ev_pc,
          ev_log, chart_bars>>

gen_vars == <<gen_arg, gen_readable, gen_pc, gen_si, gen_ti, gen_mi,
              gen_methods, gen_attempts, gen_written, gen_outcome>>
fmt_vars == <<fmt_filter, fmt_pc, fmt_ti, fmt_gi, fmt_mi, fmt_lines, fmt_looked>>
div_vars == <<div_reasons, div_embeddings, div_pairs, div_distances,
              div_result, div_pc>>
parse_vars == <<parse_input, parse_result>>
ev_vars == <<ev_dir, ev_files, ev_idx, all_scores, results_by_topic, ev_pc,
             ev_log, chart_bars>>

-----------------------------------------------------------------------------
(* Bounds of the model *)

\* the longest list of reasons handed to calculate_semantic_diversity
MaxReasons == 3
\* the largest number of *.json files in the outputs directory
MaxFiles == 2

-----------------------------------------------------------------------------
(* Text *)

\* Python's None
None == <<"None">>

\* ord(c) for the characters that occur in the file names
Ord(c) ==
    CASE c = "-" -> 45 [] c = "." -> 46 [] c = "1" -> 49 [] c = "5" -> 53
      [] c = "_" -> 95 [] c = "a" -> 97 [] c = "b" -> 98 [] c = "c" -> 99
      [] c = "d" -> 100 [] c = "e" -> 101 [] c = "f" -> 102 [] c = "g" -> 103
      [] c = "h" -> 104 [] c = "i" -> 105 [] c = "j" -> 106 [] c = "l" -> 108
      [] c = "m" -> 109 [] c = "n" -> 110 [] c = "o" -> 111 [] c = "p" -> 112
      [] c = "r" -> 114 [] c = "s" -> 115 [] c = "t" -> 116 [] c = "u" -> 117
      [] c = "x" -> 120

\* s < t for two str, as Python compares them: by code point, a proper prefix first
RECURSIVE StrLess(_, _)
StrLess(s, t) ==
    IF t = <<>> THEN FALSE
    ELSE IF s = <<>> THEN TRUE
    ELSE IF s[1] # t[1] THEN Ord(s[1]) < Ord(t[1])
    ELSE StrLess(Tail(s), Tail(t))

\* sorted(S) for a set of str
RECURSIVE Sorted(_)
Sorted(S) ==
    IF S = {} THEN <<>>
    ELSE LET m == CHOOSE x \in S : \A y \in S \ {x} : StrLess(x, y)
         IN <<m>> \o Sorted(S \ {m})

\* s.startswith(p)
StartsWith(s, p) == Len(s) >= Len(p) /\ SubSeq(s, 1, Len(p)) = p

\* s.replace(old, new): every non-overlapping occurrence, left to right
RECURSIVE str_replace(_, _, _)
str_replace(s, old, new) ==
    IF s = <<>> THEN <<>>
    ELSE IF StartsWith(s, old)
         THEN new \o str_replace(SubSeq(s, Len(old) + 1, Len(s)), old, new)
         ELSE <<s[1]>> \o str_replace(Tail(s), old, new)

\* s.find(c): the first position of character c, 0-based, or -1
RECURSIVE str_find(_, _)
str_find(s, c) ==
    IF s = <<>> THEN -1
    ELSE IF s[1] = c THEN 0
    ELSE LET r == str_find(Tail(s), c) IN IF r = -1 THEN -1 ELSE r + 1

\* s.split(c, 1): cut at the first c only
str_split1(s, c) ==
    LET k == str_find(s, c)
    IN IF k = -1 THEN <<s>>
       ELSE <<SubSeq(s, 1, k), SubSeq(s, k + 2, Len(s))>>

\* The variant that cuts at the last separator instead of the first.
RECURSIVE str_rfind(_, _)
str_rfind(s, c) ==
    IF s = <<>> THEN -1
    ELSE IF s[Len(s)] = c THEN Len(s) - 1
    ELSE str_rfind(SubSeq(s, 1, Len(s) - 1), c)

str_rsplit1(s, c) ==
    LET k == str_rfind(s, c)
    IN IF k = -1 THEN <<s>>
       ELSE <<SubSeq(s, 1, k), SubSeq(s, k + 2, Len(s))>>

\* parse_filename cutting at the last underscore
parse_filename_rsplit(filename) ==
    LET name == str_replace(filename, <<".","j","s","o","n">>, <<>>)
        parts == str_rsplit1(name, "_")
    IN IF Len(parts) = 2
       THEN <<parts[2], parts[1]>>
       ELSE <<None, None>>

\* evaluate_diversity.parse_filename
parse_filename(filename) ==
    LET name == str_replace(filename, <<".","j","s","o","n">>, <<>>)
        parts == str_split1(name, "_")
    IN IF Len(parts) = 2
       THEN <<parts[2], parts[1]>>
       ELSE <<None, None>>

\* `not x` for a str or None
Falsy(x) == x = None \/ x = <<>>

-----------------------------------------------------------------------------
(* Numbers: a float is kept as an exact fraction <<numerator, denominator>>  *)
(* in lowest terms                                                          *)

RECURSIVE GCD(_, _)
GCD(a, b) == IF b = 0 THEN a ELSE GCD(b, a % b)

Abs(n) == IF n < 0 THEN -n ELSE n

Frac(n, d) == LET g == GCD(Abs(n), d) IN <<n \div g, d \div g>>
FracAdd(a, b) == Frac(a[1] * b[2] + b[1] * a[2], a[2] * b[2])
FracEq(a, b) == a[1] * b[2] = b[1] * a[2]
FracLess(a, b) == a[1] * b[2] < b[1] * a[2]
Zero == Frac(0, 1)

\* The embedding vectors the API may return.  Their norms are whole numbers
\* (1, 1 and 5), so every cosine is an exact fraction.
Vecs == { <<1, 0>>, <<0, 1>>, <<3, 4>> }

\* np.dot
Dot(v, w) == v[1] * w[1] + v[2] * w[2]

\* np.linalg.norm
Norm(v) == CHOOSE r \in 0..(Dot(v, v)) : r * r = Dot(v, v)

\* evaluate_diversity.cosine_distance: 1 - dot / (norm * norm)
cosine_distance(vec1, vec2) ==
    LET den == Norm(vec1) * Norm(vec2)
    IN Frac(den - Dot(vec1, vec2), den)

\* The (i, j) of combinations(enumerate(embeddings), 2) for n embeddings, in
\* the order itertools yields them; positions are 0-based.
RECURSIVE PairsFrom(_, _, _)
PairsFrom(i, j, n) ==
    IF i >= n - 1 THEN <<>>
    ELSE IF j >= n THEN PairsFrom(i + 1, i + 2, n)
    ELSE << <<i, j>> >> \o PairsFrom(i, j + 1, n)

\* itertools.product in place of combinations: every ordered (i, j)
RECURSIVE ProductFrom(_, _, _)
ProductFrom(i, j, n) ==
    IF i >= n THEN <<>>
    ELSE IF j >= n THEN ProductFrom(i + 1, 0, n)
    ELSE << <<i, j>> >> \o ProductFrom(i, j + 1, n)

product2(n) == ProductFrom(0, 0, n)

combinations2(n) == PairsFrom(0, 1, n)

\* sum of a list of fractions
RECURSIVE FracSum(_)
FracSum(ds) == IF ds = <<>> THEN Zero ELSE FracAdd(ds[1], FracSum(Tail(ds)))

\* np.mean
Mean(ds) == LET s == FracSum(ds) IN Frac(s[1], s[2] * Len(ds))

\* the list distances that calculate_semantic_diversity builds from embeddings
Distances(embeddings) ==
    LET ps == combinations2(Len(embeddings))
    IN [k \in 1..Len(ps) |->
           cosine_distance(embeddings[ps[k][1] + 1], embeddings[ps[k][2] + 1])]

\* evaluate_diversity.calculate_semantic_diversity, given what get_embedding
\* returned for each reason
calculate_semantic_diversity(embeddings) ==
    IF Len(embeddings) < 2 THEN Zero ELSE Mean(Distances(embeddings))

-----------------------------------------------------------------------------
(* generate_statements_unified.py *)

\* the ids of TOPICS, in order
TOPICS == << <<"e","l","e","c","t","i","o","n","s">>, <<"l","i","t","t","e","r","i","n","g">>, <<"c","a","m","p","u","s","_","p","r","o","t","e","s","t","s">> >>

\* the choices of --shot-type
ShotChoices == {"1-shot", "5-shot", "all"}

\* main: shot_types
shot_types(arg) == IF arg = "all" THEN <<"1-shot", "5-shot">> ELSE <<arg>>

\* get_methods: the prefix of the method names
method_prefix(shot_type) == IF shot_type = "1-shot" THEN <<"1","-","s","h","o","t","-">> ELSE <<>>

\* get_methods with every method named by the prefix of the other shot type
get_methods_swapped(shot_type) ==
    LET prefix == IF shot_type = "1-shot" THEN <<>> ELSE <<"1","-","s","h","o","t","-">>
    IN << [name |-> prefix \o <<"c","r","i","t","e","r","i","a","-","b","a","s","e","d">>, build_prompt |-> "criteria_based"],
          [name |-> prefix \o <<"f","r","e","e","-","f","o","r","m">>, build_prompt |-> "free_form"] >>

\* get_methods, once the two prompt files have been read
get_methods(shot_type) ==
    LET prefix == method_prefix(shot_type)
    IN << [name |-> prefix \o <<"c","r","i","t","e","r","i","a","-","b","a","s","e","d">>, build_prompt |-> "criteria_based"],
          [name |-> prefix \o <<"f","r","e","e","-","f","o","r","m">>, build_prompt |-> "free_form"] >>

\* main: output_file = f"{method['name']}_{topic['id']}.json"
output_file(method_name, topic_id) ==
    method_name \o <<"_">> \o topic_id \o <<".","j","s","o","n">>

\* What the chat completion call can do: raise, or return a message whose
\* content is None, "", text without braces, braces around invalid JSON, "{}",
\* or a non-empty JSON object.
ApiOutcomes == {"raises", "content_none", "content_empty", "content_prose",
                "content_bad_json", "content_empty_object", "content_object"}

\* generate_perspectives: the content, or None when the call raised
generate_perspectives(api) == IF api = "raises" THEN "content_none" ELSE api

\* `if response:`
ResponseTruthy(response) == response \notin {"content_none", "content_empty"}

\* extract_json: None, {} or a non-empty dict
extract_json(response) ==
    CASE response = "content_object" -> "dict"
      [] response = "content_empty_object" -> "empty_dict"
      [] OTHER -> "None"

\* `if perspectives:`
PerspectivesTruthy(perspectives) == perspectives = "dict"

GenInit ==
    /\ gen_arg \in ShotChoices
    /\ gen_readable \in SUBSET {"1-shot", "5-shot"}
    /\ gen_pc = "start"
    /\ gen_si = 0 /\ gen_ti = 0 /\ gen_mi = 0
    /\ gen_methods = <<>>
    /\ gen_attempts = <<>>
    /\ gen_written = {}
    /\ gen_outcome = "none"

GenIdle ==
    /\ gen_arg = "none" /\ gen_readable = {} /\ gen_pc = "idle"
    /\ gen_si = 0 /\ gen_ti = 0 /\ gen_mi = 0
    /\ gen_methods = <<>> /\ gen_attempts = <<>> /\ gen_written = {}
    /\ gen_outcome = "none"

\* main, lines 147-154: parse the arguments, make the directory, choose shot_types
GenStart ==
    /\ script = "generate" /\ gen_pc = "start"
    /\ UNCHANGED <<script, fmt_vars, div_vars, parse_vars, ev_vars>>
    /\ gen_si' = 1
    /\ gen_pc' = "methods"
    /\ UNCHANGED <<gen_arg, gen_readable, gen_ti, gen_mi, gen_methods,
                   gen_attempts, gen_written, gen_outcome>>

\* main, lines 157-162: the head of the shot type loop; get_methods reads the
\* prompt files and raises when one cannot be read
GenGetMethods ==
    /\ script = "generate" /\ gen_pc = "methods"
    /\ UNCHANGED <<script, fmt_vars, div_vars, parse_vars, ev_vars>>
    /\ LET shot_type == shot_types(gen_arg)[gen_si]
       IN IF shot_type \in gen_readable
          THEN /\ gen_methods' = get_methods(shot_type)
               /\ gen_ti' = 1 /\ gen_mi' = 1
               /\ gen_pc' = "attempt"
          ELSE /\ gen_pc' = "crashed"
               /\ UNCHANGED <<gen_methods, gen_ti, gen_mi>>
    /\ UNCHANGED <<gen_arg, gen_readable, gen_si, gen_attempts, gen_written,
                   gen_outcome>>

\* The body of the method loop that gives up on the whole run when a
\* combination yields nothing to save.
GenAttemptStopOnFailure ==
    /\ script = "generate" /\ gen_pc = "attempt"
    /\ UNCHANGED <<script, fmt_vars, div_vars, parse_vars, ev_vars>>
    /\ \E api \in ApiOutcomes :
         LET shot_type == shot_types(gen_arg)[gen_si]
             topic == TOPICS[gen_ti]
             method == gen_methods[gen_mi]
             response == generate_perspectives(api)
             saved == ResponseTruthy(response)
                        /\ PerspectivesTruthy(extract_json(response))
             last_m == gen_mi = Len(gen_methods)
             last_t == gen_ti = Len(TOPICS)
             last_s == gen_si = Len(shot_types(gen_arg))
         IN /\ gen_outcome' = api
            /\ gen_attempts' = Append(gen_attempts, <<shot_type, topic, method.name>>)
            /\ gen_written' = IF saved
                              THEN gen_written \cup {output_file(method.name, topic)}
                              ELSE gen_written
            /\ gen_mi' = IF last_m THEN 1 ELSE gen_mi + 1
            /\ gen_ti' = IF ~last_m THEN gen_ti ELSE IF last_t THEN 1 ELSE gen_ti + 1
            /\ gen_si' = IF last_m /\ last_t /\ ~last_s THEN gen_si + 1 ELSE gen_si
            /\ gen_pc' = IF ~saved THEN "epilogue"
                         ELSE IF ~(last_m /\ last_t) THEN "attempt"
                         ELSE IF last_s THEN "epilogue" ELSE "methods"
    /\ UNCHANGED <<gen_arg, gen_readable, gen_methods>>

\* main, lines 170-193: one pass of the method loop body for the current
\* (shot type, topic, method), then the step to the next combination
GenAttempt ==
    /\ script = "generate" /\ gen_pc = "attempt"
    /\ UNCHANGED <<script, fmt_vars, div_vars, parse_vars, ev_vars>>
    /\ \E api \in ApiOutcomes :
         LET shot_type == shot_types(gen_arg)[gen_si]
             topic == TOPICS[gen_ti]
             method == gen_methods[gen_mi]
             response == generate_perspectives(api)
             saved == ResponseTruthy(response)
                        /\ PerspectivesTruthy(extract_json(response))
             last_m == gen_mi = Len(gen_methods)
             last_t == gen_ti = Len(TOPICS)
             last_s == gen_si = Len(shot_types(gen_arg))
         IN /\ gen_outcome' = api
            /\ gen_attempts' = Append(gen_attempts, <<shot_type, topic, method.name>>)
            /\ gen_written' = IF saved
                              THEN gen_written \cup {output_file(method.name, topic)}
                              ELSE gen_written
            /\ gen_mi' = IF last_m THEN 1 ELSE gen_mi + 1
            /\ gen_ti' = IF ~last_m THEN gen_ti ELSE IF last_t THEN 1 ELSE gen_ti + 1
            /\ gen_si' = IF last_m /\ last_t /\ ~last_s THEN gen_si + 1 ELSE gen_si
            /\ gen_pc' = IF ~(last_m /\ last_t) THEN "attempt"
                         ELSE IF last_s THEN "epilogue" ELSE "methods"
    /\ UNCHANGED <<gen_arg, gen_readable, gen_methods>>

\* main, lines 195-197: print "Generation complete!"
GenComplete ==
    /\ script = "generate" /\ gen_pc = "epilogue"
    /\ UNCHANGED <<script, fmt_vars, div_vars, parse_vars, ev_vars>>
    /\ gen_pc' = "done"
    /\ UNCHANGED <<gen_arg, gen_readable, gen_si, gen_ti, gen_mi, gen_methods,
                   gen_attempts, gen_written, gen_outcome>>

-----------------------------------------------------------------------------
(* format_results_unified.py *)

\* the keys of TOPIC_INFO, in insertion order
TOPIC_INFO == << <<"e","l","e","c","t","i","o","n","s">>, <<"l","i","t","t","e","r","i","n","g">>, <<"c","a","m","p","u","s","_","p","r","o","t","e","s","t","s">> >>

\* get_method_groups for the accepted filters (another filter raises ValueError;
\* argparse admits only these three)
get_method_groups(shot_filter) ==
    CASE shot_filter = "all" ->
           << [label |-> <<"5","-","s","h","o","t">>,
               methods |-> << <<"c","r","i","t","e","r","i","a","-","b","a","s","e","d">>, <<"f","r","e","e","-","f","o","r","m">> >>],
              [label |-> <<"1","-","s","h","o","t">>,
               methods |-> << <<"1","-","s","h","o","t","-","c","r","i","t","e","r","i","a","-","b","a","s","e","d">>, <<"1","-","s","h","o","t","-","f","r","e","e","-","f","o","r","m">> >>] >>
      [] shot_filter = "5-shot" ->
           << [label |-> <<"5","-","s","h","o","t">>,
               methods |-> << <<"c","r","i","t","e","r","i","a","-","b","a","s","e","d">>, <<"f","r","e","e","-","f","o","r","m">> >>] >>
      [] shot_filter = "1-shot" ->
           << [label |-> <<"1","-","s","h","o","t">>,
               methods |-> << <<"1","-","s","h","o","t","-","c","r","i","t","e","r","i","a","-","b","a","s","e","d">>, <<"1","-","s","h","o","t","-","f","r","e","e","-","f","o","r","m">> >>] >>

\* display_results: filename = f"{method}_{topic_id}.json"
lookup_filename(method, topic_id) == method \o <<"_">> \o topic_id \o <<".","j","s","o","n">>

\* What display_results can find for a file name: no such file, a file whose
\* keys are numbers and whose perspectives have a Reason, or a file that is
\* not like that (json.load, int(key) or perspective['Reason'] raises).
Lookups == {"missing", "well_formed", "malformed"}

FmtInit ==
    /\ fmt_filter \in ShotChoices
    /\ fmt_pc = "start"
    /\ fmt_ti = 0 /\ fmt_gi = 0 /\ fmt_mi = 0
    /\ fmt_lines = <<>>
    /\ fmt_looked = <<>>

FmtIdle ==
    /\ fmt_filter = "none" /\ fmt_pc = "idle"
    /\ fmt_ti = 0 /\ fmt_gi = 0 /\ fmt_mi = 0
    /\ fmt_lines = <<>> /\ fmt_looked = <<>>

Line(kind, text) == [kind |-> kind, text |-> text]

\* display_results, lines 52-69: return when the directory is missing, else
\* choose the groups and start lines with the header
FmtStart ==
    /\ script = "format" /\ fmt_pc = "start"
    /\ UNCHANGED <<script, gen_vars, div_vars, parse_vars, ev_vars>>
    /\ \E dir_exists \in BOOLEAN :
         IF dir_exists
         THEN /\ fmt_pc' = "loop"
              /\ fmt_lines' = << Line("header", <<>>) >>
              /\ fmt_ti' = 1 /\ fmt_gi' = 1 /\ fmt_mi' = 1
         ELSE /\ fmt_pc' = "returned"
              /\ UNCHANGED <<fmt_lines, fmt_ti, fmt_gi, fmt_mi>>
    /\ UNCHANGED <<fmt_filter, fmt_looked>>

\* display_results, lines 71-102: the headers due before this method, then one
\* pass of the method loop body, then the step to the next (topic, group, method)
FmtLookup ==
    /\ script = "format" /\ fmt_pc = "loop"
    /\ UNCHANGED <<script, gen_vars, div_vars, parse_vars, ev_vars>>
    /\ \E found \in Lookups :
         LET groups == get_method_groups(fmt_filter)
             topic_id == TOPIC_INFO[fmt_ti]
             group == groups[fmt_gi]
             method == group.methods[fmt_mi]
             filename == lookup_filename(method, topic_id)
             topic_head == IF fmt_gi = 1 /\ fmt_mi = 1
                           THEN << Line("topic", topic_id) >> ELSE <<>>
             group_head == IF fmt_mi = 1 /\ fmt_filter = "all"
                           THEN << Line("examples", group.label) >> ELSE <<>>
             body == CASE found = "missing" -> << Line("missing", filename) >>
                       [] found = "well_formed" ->
                            << Line("method", method), Line("total", <<>>) >>
                       [] found = "malformed" -> << Line("method", method) >>
             last_m == fmt_mi = Len(group.methods)
             last_g == fmt_gi = Len(groups)
             last_t == fmt_ti = Len(TOPIC_INFO)
         IN /\ fmt_looked' = Append(fmt_looked, filename)
            /\ fmt_lines' = fmt_lines \o topic_head \o group_head \o body
            /\ IF found = "malformed"
               THEN /\ fmt_pc' = "crashed"
                    /\ UNCHANGED <<fmt_ti, fmt_gi, fmt_mi>>
               ELSE /\ fmt_mi' = IF last_m THEN 1 ELSE fmt_mi + 1
                    /\ fmt_gi' = IF ~last_m THEN fmt_gi
                                 ELSE IF last_g THEN 1 ELSE fmt_gi + 1
                    /\ fmt_ti' = IF last_m /\ last_g /\ ~last_t
                                 THEN fmt_ti + 1 ELSE fmt_ti
                    /\ fmt_pc' = IF last_m /\ last_g /\ last_t
                                 THEN "output" ELSE "loop"
    /\ UNCHANGED fmt_filter

\* display_results, lines 104-118: the footer, print, and save to save_file
FmtOutput ==
    /\ script = "format" /\ fmt_pc = "output"
    /\ UNCHANGED <<script, gen_vars, div_vars, parse_vars, ev_vars>>
    /\ fmt_lines' = Append(fmt_lines, Line("end", <<>>))
    /\ fmt_pc' = "done"
    /\ UNCHANGED <<fmt_filter, fmt_ti, fmt_gi, fmt_mi, fmt_looked>>

-----------------------------------------------------------------------------
(* evaluate_diversity.calculate_semantic_diversity, run on its own *)

\* the texts a reason may be
Texts == {"r1", "r2"}

\* every list over S of length at most n
SeqsUpTo(S, n) == UNION { [1..k -> S] : k \in 0..n }

DivInit ==
    /\ div_reasons \in SeqsUpTo(Texts, MaxReasons)
    /\ div_embeddings = <<>>
    /\ div_pairs = <<>>
    /\ div_distances = <<>>
    /\ div_result = None
    /\ div_pc = "start"

DivIdle ==
    /\ div_reasons = <<>> /\ div_embeddings = <<>> /\ div_pairs = <<>>
    /\ div_distances = <<>> /\ div_result = None /\ div_pc = "idle"

\* lines 71-72: fewer than two reasons
DivReturnZero ==
    /\ script = "diversity" /\ div_pc = "start"
    /\ UNCHANGED <<script, gen_vars, fmt_vars, parse_vars, ev_vars>>
    /\ Len(div_reasons) < 2
    /\ div_result' = Zero
    /\ div_pc' = "returned"
    /\ UNCHANGED <<div_reasons, div_embeddings, div_pairs, div_distances>>

\* line 76: get_embedding for the next reason; the vector is the API's answer
DivGetEmbedding ==
    /\ script = "diversity" /\ div_pc = "start"
    /\ UNCHANGED <<script, gen_vars, fmt_vars, parse_vars, ev_vars>>
    /\ Len(div_reasons) >= 2
    /\ Len(div_embeddings) < Len(div_reasons)
    /\ \E v \in Vecs : div_embeddings' = Append(div_embeddings, v)
    /\ UNCHANGED <<div_reasons, div_pairs, div_distances, div_result, div_pc>>

\* lines 79-85: the loop over the pairs, and the mean
DivCalculate ==
    /\ script = "diversity" /\ div_pc = "start"
    /\ UNCHANGED <<script, gen_vars, fmt_vars, parse_vars, ev_vars>>
    /\ Len(div_reasons) >= 2
    /\ Len(div_embeddings) = Len(div_reasons)
    /\ div_pairs' = combinations2(Len(div_embeddings))
    /\ div_distances' = Distances(div_embeddings)
    /\ div_result' = calculate_semantic_diversity(div_embeddings)
    /\ div_pc' = "returned"
    /\ UNCHANGED <<div_reasons, div_embeddings>>

-----------------------------------------------------------------------------
(* evaluate_diversity.parse_filename, run on its own *)

\* every file name the generator can write
GeneratorNames(arg) ==
    { output_file(get_methods(shot_types(arg)[s])[m].name, TOPICS[t]) :
        s \in 1..Len(shot_types(arg)), m \in 1..2, t \in 1..Len(TOPICS) }

\* other names a *.json file of the outputs directory may have
OtherNames ==
    { <<"a","_","b",".","j","s","o","n">>, <<"a","_","b",".","j","s","o","n",".","j","s","o","n">>, <<"n","o","t","e","s",".","j","s","o","n">>, <<"_","x",".","j","s","o","n">>, <<"x","_",".","j","s","o","n">> }

ParseInit ==
    /\ parse_input \in GeneratorNames("all") \cup OtherNames
    /\ parse_result = <<>>

ParseIdle == parse_input = <<>> /\ parse_result = <<>>

Parse ==
    /\ script = "parse" /\ parse_result = <<>>
    /\ UNCHANGED <<script, gen_vars, fmt_vars, div_vars, ev_vars>>
    /\ parse_result' = parse_filename(parse_input)
    /\ UNCHANGED parse_input

-----------------------------------------------------------------------------
(* evaluate_diversity.main *)

\* The names the files of the outputs directory are drawn from.
EvNames ==
    { <<"c","r","i","t","e","r","i","a","-","b","a","s","e","d","_","e","l","e","c","t","i","o","n","s",".","j","s","o","n">>, <<"1","-","s","h","o","t","-","f","r","e","e","-","f","o","r","m","_","c","a","m","p","u","s","_","p","r","o","t","e","s","t","s",".","j","s","o","n">>,
      <<"a","_","b",".","j","s","o","n">>, <<"a","_","b",".","j","s","o","n",".","j","s","o","n">>, <<"n","o","t","e","s",".","j","s","o","n">>, <<"_","x",".","j","s","o","n">> }

\* A file's contents: text that is not JSON, a JSON array, or a JSON object
\* whose values are, in order, a dict with a Reason ("reason"), a dict without
\* one ("dict") or not a dict ("scalar").
Contents(json, values) == [json |-> json, values |-> values]

EvContents ==
    { Contents("invalid", <<>>), Contents("array", <<>>),
      Contents("object", <<"reason">>),
      Contents("object", <<"reason", "reason">>),
      Contents("object", <<"reason", "scalar", "dict", "reason">>) }

\* extract_reasons: one entry for each value that is a dict with a Reason
extract_reasons(data) == SelectSeq(data.values, LAMBDA v : v = "reason")

\* the scores a file with k reasons can get, one for each answer of the API
Scores(k) == { calculate_semantic_diversity(e) : e \in [1..k -> Vecs] }

\* results_by_topic[topic][approach] = score
StoreByTopic(rbt, topic, approach, score) ==
    LET old == IF topic \in DOMAIN rbt THEN rbt[topic] ELSE <<>>
        new == [a \in DOMAIN old \cup {approach} |->
                   IF a = approach THEN score ELSE old[a]]
    IN [t \in DOMAIN rbt \cup {topic} |-> IF t = topic THEN new ELSE rbt[t]]

\* create_grouped_bar_chart: approach_order and topic_order
approach_order ==
    << <<"c","r","i","t","e","r","i","a","-","b","a","s","e","d">>, <<"1","-","s","h","o","t","-","c","r","i","t","e","r","i","a","-","b","a","s","e","d">>, <<"f","r","e","e","-","f","o","r","m">>, <<"1","-","s","h","o","t","-","f","r","e","e","-","f","o","r","m">> >>
topic_order == << <<"e","l","e","c","t","i","o","n","s">>, <<"l","i","t","t","e","r","i","n","g">>, <<"c","a","m","p","u","s","_","p","r","o","t","e","s","t","s">> >>

Range(s) == { s[k] : k \in DOMAIN s }

\* create_grouped_bar_chart, lines 132-155: the bars, (topic, approach) -> height
Bars(rbt) ==
    LET topics == SelectSeq(topic_order, LAMBDA t : t \in DOMAIN rbt)
    IN [p \in Range(topics) \X Range(approach_order) |->
           IF p[2] \in DOMAIN rbt[p[1]] THEN rbt[p[1]][p[2]] ELSE Zero]

EvInit ==
    /\ \E names \in SUBSET EvNames :
         /\ Cardinality(names) <= MaxFiles
         /\ ev_dir \in [names -> EvContents]
    /\ ev_files = <<>>
    /\ ev_idx = 0
    /\ all_scores = <<>>
    /\ results_by_topic = <<>>
    /\ ev_pc = "start"
    /\ ev_log = <<>>
    /\ chart_bars = <<>>

EvIdle ==
    /\ ev_dir = <<>> /\ ev_files = <<>> /\ ev_idx = 0 /\ all_scores = <<>>
    /\ results_by_topic = <<>> /\ ev_pc = "idle" /\ ev_log = <<>>
    /\ chart_bars = <<>>

\* main, lines 188-197: json_files = sorted(outputs_dir.glob("*.json"))
EvStart ==
    /\ script = "evaluate" /\ ev_pc = "start"
    /\ UNCHANGED <<script, gen_vars, fmt_vars, div_vars, parse_vars>>
    /\ ev_files' = Sorted(DOMAIN ev_dir)
    /\ ev_idx' = 1
    /\ ev_pc' = "loop"
    /\ UNCHANGED <<ev_dir, all_scores, results_by_topic, ev_log, chart_bars>>

\* main, lines 200-237: one pass of the loop body.  load_json_file raises on
\* text that is not JSON, extract_reasons raises on a JSON array (no .items()),
\* get_embedding raises when the API call fails; nothing catches them.
EvProcessFile ==
    /\ script = "evaluate" /\ ev_pc = "loop"
    /\ UNCHANGED <<script, gen_vars, fmt_vars, div_vars, parse_vars>>
    /\ ev_idx <= Len(ev_files)
    /\ LET filename == ev_files[ev_idx]
           parsed == parse_filename(filename)
           topic == parsed[1]
           approach == parsed[2]
           data == ev_dir[filename]
           skip == /\ ev_idx' = ev_idx + 1
                   /\ UNCHANGED <<all_scores, results_by_topic, ev_pc>>
           crash == /\ ev_pc' = "crashed"
                    /\ UNCHANGED <<all_scores, results_by_topic, ev_idx>>
       IN IF filename = <<"f","o","r","m","a","t","t","e","d","_","r","e","s","u","l","t","s",".","t","x","t">> THEN skip
          ELSE IF Falsy(topic) \/ Falsy(approach) THEN skip
          ELSE IF data.json = "invalid" THEN crash
          ELSE IF data.json = "array" THEN crash
          ELSE IF Len(extract_reasons(data)) < 2 THEN skip
          ELSE \/ crash
               \/ \E diversity_score \in Scores(Len(extract_reasons(data))) :
                    /\ all_scores' =
                         [f \in DOMAIN all_scores \cup {filename} |->
                             IF f = filename THEN diversity_score ELSE all_scores[f]]
                    /\ results_by_topic' =
                         StoreByTopic(results_by_topic, topic, approach, diversity_score)
                    /\ ev_idx' = ev_idx + 1
                    /\ UNCHANGED ev_pc
    /\ UNCHANGED <<ev_dir, ev_files, ev_log, chart_bars>>

\* main, lines 239-264: the summary and diversity_scores.txt
EvWriteScores ==
    /\ script = "evaluate" /\ ev_pc = "loop"
    /\ UNCHANGED <<script, gen_vars, fmt_vars, div_vars, parse_vars>>
    /\ ev_idx > Len(ev_files)
    /\ ev_log' = Append(ev_log, "diversity_scores.txt")
    /\ ev_pc' = "chart"
    /\ UNCHANGED <<ev_dir, ev_files, ev_idx, all_scores, results_by_topic,
                   chart_bars>>

\* main, line 271: create_grouped_bar_chart.  Line 173 takes max() of one value
\* per topic of results_by_topic and raises ValueError when there is none; the
\* figure is saved only after it.
EvChart ==
    /\ script = "evaluate" /\ ev_pc = "chart"
    /\ UNCHANGED <<script, gen_vars, fmt_vars, div_vars, parse_vars>>
    /\ IF DOMAIN results_by_topic = {}
       THEN /\ ev_pc' = "crashed"
            /\ UNCHANGED <<ev_log, chart_bars>>
       ELSE /\ chart_bars' = Bars(results_by_topic)
            /\ ev_log' = Append(ev_log, "diversity_grouped_bar_chart.png")
            /\ ev_pc' = "epilogue"
    /\ UNCHANGED <<ev_dir, ev_files, ev_idx, all_scores, results_by_topic>>

\* main, lines 273-276: print "EVALUATION COMPLETE"
EvComplete ==
    /\ script = "evaluate" /\ ev_pc = "epilogue"
    /\ UNCHANGED <<script, gen_vars, fmt_vars, div_vars, parse_vars>>
    /\ ev_log' = Append(ev_log, "EVALUATION COMPLETE")
    /\ ev_pc' = "done"
    /\ UNCHANGED <<ev_dir, ev_files, ev_idx, all_scores, results_by_topic,
                   chart_bars>>

-----------------------------------------------------------------------------
(* The specification *)

Scripts == {"generate", "format", "diversity", "parse", "evaluate"}

Init ==
    /\ script \in Scripts
    /\ IF script = "generate" THEN GenInit ELSE GenIdle
    /\ IF script = "format" THEN FmtInit ELSE FmtIdle
    /\ IF script = "diversity" THEN DivInit ELSE DivIdle
    /\ IF script = "parse" THEN ParseInit ELSE ParseIdle
    /\ IF script = "evaluate" THEN EvInit ELSE EvIdle

Next ==
    \/ GenStart \/ GenGetMethods \/ GenAttempt \/ GenComplete
    \/ FmtStart \/ FmtLookup \/ FmtOutput
    \/ DivReturnZero \/ DivGetEmbedding \/ DivCalculate
    \/ Parse
    \/ EvStart \/ EvProcessFile \/ EvWriteScores \/ EvChart \/ EvComplete

Spec == Init /\ [][Next]_vars

\* The generator is one sequential process: while main has a next step, it
\* takes it.
GenNext == GenStart \/ GenGetMethods \/ GenAttempt \/ GenComplete

LiveSpec == Spec /\ WF_vars(GenNext)

-----------------------------------------------------------------------------
(* The claims *)

\* the unordered pairs of positions of a list of n items, as (i, j) with i < j
PositionPairs(n) == { p \in (0..(n - 1)) \X (0..(n - 1)) : p[1] < p[2] }

\* the sum of the cosine distances over a set of pairs of positions
RECURSIVE DistanceSum(_, _)
DistanceSum(P, embeddings) ==
    IF P = {} THEN Zero
    ELSE LET p == CHOOSE q \in P : TRUE
         IN FracAdd(cosine_distance(embeddings[p[1] + 1], embeddings[p[2] + 1]),
                    DistanceSum(P \ {p}, embeddings))

\* C1: for n >= 2 reasons, calculate_semantic_diversity returns the mean of the
\* cosine distance over exactly the n*(n-1)/2 pairs of positions (i, j) with
\* i < j: the loop binds every such pair once, never a position with itself,
\* never a pair in both orders, and the result is the sum of their distances
\* divided by their number.
C1_MeanOverUnorderedPairs ==
    (script = "diversity" /\ div_pc = "returned" /\ Len(div_reasons) >= 2) =>
        LET n == Len(div_reasons)
            P == PositionPairs(n)
            S == DistanceSum(P, div_embeddings)
        IN /\ Len(div_pairs) = (n * (n - 1)) \div 2
           /\ Range(div_pairs) = P
           /\ \A k, l \in DOMAIN div_pairs :
                k # l => /\ div_pairs[k] # div_pairs[l]
                         /\ div_pairs[k] # <<div_pairs[l][2], div_pairs[l][1]>>
           /\ \A k \in DOMAIN div_pairs : div_pairs[k][1] # div_pairs[k][2]
           /\ Len(div_distances) = Len(div_pairs)
           /\ \A k \in DOMAIN div_pairs :
                div_distances[k] = cosine_distance(div_embeddings[div_pairs[k][1] + 1],
                                                   div_embeddings[div_pairs[k][2] + 1])
           /\ FracEq(div_result, Frac(S[1], S[2] * Cardinality(P)))

\* C1's case: three reasons, the first two with the same text, are paired at
\* positions (0, 1), and the diversity is not zero.
C1_Witness ==
    /\ script = "diversity" /\ div_pc = "returned"
    /\ Len(div_reasons) = 3
    /\ div_reasons[1] = div_reasons[2]
    /\ \E k \in DOMAIN div_pairs : div_pairs[k] = <<0, 1>>
    /\ FracLess(Zero, div_result)

\* the method names and topic ids, as written in the claims
MethodNames ==
    { <<"c","r","i","t","e","r","i","a","-","b","a","s","e","d">>, <<"f","r","e","e","-","f","o","r","m">>, <<"1","-","s","h","o","t","-","c","r","i","t","e","r","i","a","-","b","a","s","e","d">>, <<"1","-","s","h","o","t","-","f","r","e","e","-","f","o","r","m">> }
TopicIds == { <<"e","l","e","c","t","i","o","n","s">>, <<"l","i","t","t","e","r","i","n","g">>, <<"c","a","m","p","u","s","_","p","r","o","t","e","s","t","s">> }

\* C2: parse_filename inverts the generator's naming: for every method name m
\* that get_methods produces and every topic id t of TOPICS,
\* parse_filename(m + '_' + t + '.json') is (t, m); a name without an
\* underscore gives (None, None).
C2_ParseInvertsNaming ==
    /\ { get_methods(s)[k].name : s \in {"1-shot", "5-shot"}, k \in 1..2 } = MethodNames
    /\ Range(TOPICS) = TopicIds
    /\ (script = "parse" /\ parse_result # <<>>) =>
          /\ \A m \in MethodNames, t \in TopicIds :
                parse_input = m \o <<"_">> \o t \o <<".","j","s","o","n">> => parse_result = <<t, m>>
          /\ \A s \in {"1-shot", "5-shot"}, k \in 1..2, i \in DOMAIN TOPICS :
                parse_input = output_file(get_methods(s)[k].name, TOPICS[i])
                    => parse_result = <<TOPICS[i], get_methods(s)[k].name>>
          /\ str_find(parse_input, "_") = -1 => parse_result = <<None, None>>

\* C2's case: a generated name whose topic id contains an underscore has been parsed.
C2_Witness ==
    /\ script = "parse"
    /\ parse_input = <<"1","-","s","h","o","t","-","f","r","e","e","-","f","o","r","m","_","c","a","m","p","u","s","_","p","r","o","t","e","s","t","s",".","j","s","o","n">>
    /\ parse_result = << <<"c","a","m","p","u","s","_","p","r","o","t","e","s","t","s">>, <<"1","-","s","h","o","t","-","f","r","e","e","-","f","o","r","m">> >>

\* every file name display_results looks up under a filter
FormatterNames(shot_filter) ==
    { lookup_filename(get_method_groups(shot_filter)[g].methods[m], TOPIC_INFO[t]) :
        g \in DOMAIN get_method_groups(shot_filter), m \in 1..2, t \in DOMAIN TOPIC_INFO }

\* the file name a generator attempt would write
AttemptName(a) == output_file(a[3], a[2])

\* C3: for each shot type s, the file names display_results looks up with
\* shot_filter = s are the file names the generator writes to with
\* --shot-type = s: 6 for '1-shot', 6 for '5-shot', 12 for 'all', pairwise
\* distinct, and the '1-shot' and '5-shot' names are disjoint.
C3_LookupsAreGeneratorNames ==
    /\ script = "format" =>
          /\ Range(fmt_looked) \subseteq GeneratorNames(fmt_filter)
          /\ Len(fmt_looked) = Cardinality(Range(fmt_looked))
          /\ fmt_pc \in {"output", "done"} =>
                /\ Range(fmt_looked) = GeneratorNames(fmt_filter)
                /\ Len(fmt_looked) = IF fmt_filter = "all" THEN 12 ELSE 6
    /\ script = "generate" =>
          LET names(s) == { AttemptName(a) : a \in { b \in Range(gen_attempts) : b[1] = s } }
          IN /\ gen_written \subseteq names("1-shot") \cup names("5-shot")
             /\ names("1-shot") \cup names("5-shot") \subseteq FormatterNames(gen_arg)
             /\ names("1-shot") \cap names("5-shot") = {}
             /\ names("1-shot") \subseteq FormatterNames("1-shot")
             /\ names("5-shot") \subseteq FormatterNames("5-shot")
             /\ gen_pc = "done" =>
                   /\ names("1-shot") \cup names("5-shot") = FormatterNames(gen_arg)
                   /\ Len(gen_attempts) = IF gen_arg = "all" THEN 12 ELSE 6
                   /\ gen_arg = "all" => /\ Cardinality(names("1-shot")) = 6
                                         /\ Cardinality(names("5-shot")) = 6

\* C3's case: display_results has looked up all 12 names of the filter 'all'.
C3_Witness ==
    /\ script = "format" /\ fmt_pc = "done" /\ fmt_filter = "all"
    /\ Cardinality(Range(fmt_looked)) = 12

\* the (shot type, topic, method) combinations of one shot type, in claim order
AttemptsOf(shot_type, prefix) ==
    << <<shot_type, <<"e","l","e","c","t","i","o","n","s">>, prefix \o <<"c","r","i","t","e","r","i","a","-","b","a","s","e","d">>>>,
       <<shot_type, <<"e","l","e","c","t","i","o","n","s">>, prefix \o <<"f","r","e","e","-","f","o","r","m">>>>,
       <<shot_type, <<"l","i","t","t","e","r","i","n","g">>, prefix \o <<"c","r","i","t","e","r","i","a","-","b","a","s","e","d">>>>,
       <<shot_type, <<"l","i","t","t","e","r","i","n","g">>, prefix \o <<"f","r","e","e","-","f","o","r","m">>>>,
       <<shot_type, <<"c","a","m","p","u","s","_","p","r","o","t","e","s","t","s">>, prefix \o <<"c","r","i","t","e","r","i","a","-","b","a","s","e","d">>>>,
       <<shot_type, <<"c","a","m","p","u","s","_","p","r","o","t","e","s","t","s">>, prefix \o <<"f","r","e","e","-","f","o","r","m">>>> >>

ExpectedAttempts(arg) ==
    CASE arg = "1-shot" -> AttemptsOf("1-shot", <<"1","-","s","h","o","t","-">>)
      [] arg = "5-shot" -> AttemptsOf("5-shot", <<>>)
      [] arg = "all" -> AttemptsOf("1-shot", <<"1","-","s","h","o","t","-">>) \o AttemptsOf("5-shot", <<>>)
      [] OTHER -> <<>>

IsPrefix(s, t) == Len(s) <= Len(t) /\ s = SubSeq(t, 1, Len(s))

AfterLoop ==
    script = "evaluate" /\ ev_pc \notin {"start", "idle"} /\ ev_idx > Len(ev_files)

\* C5: the chart shows all topics and approaches: for every topic of
\* results_by_topic and every approach scored under it there is a bar whose
\* height is that score.
C5_ChartShowsEveryScore ==
    (script = "evaluate" /\ ev_pc \in {"epilogue", "done"}) =>
        \A t \in DOMAIN results_by_topic : \A a \in DOMAIN results_by_topic[t] :
            /\ <<t, a>> \in DOMAIN chart_bars
            /\ chart_bars[<<t, a>>] = results_by_topic[t][a]

\* whether the loop body reaches the scoring of file f
Scorable(f) ==
    LET parsed == parse_filename(f)
    IN /\ ~Falsy(parsed[1]) /\ ~Falsy(parsed[2])
       /\ ev_dir[f].json = "object"
       /\ Cardinality({ k \in DOMAIN ev_dir[f].values : ev_dir[f].values[k] = "reason" }) >= 2

\* C6: after the loop, all_scores has an entry for a file f exactly when f's
\* name parses to a non-empty topic and approach and f holds at least 2 entries
\* with a Reason; for every such f, results_by_topic[topic][approach] is
\* all_scores[f]; and results_by_topic holds no other score.
C6_ScoresMatchFiles ==
    AfterLoop =>
        /\ \A f \in DOMAIN ev_dir : f \in DOMAIN all_scores <=> Scorable(f)
        /\ \A f \in DOMAIN all_scores :
              LET parsed == parse_filename(f)
              IN /\ parsed[1] \in DOMAIN results_by_topic
                 /\ parsed[2] \in DOMAIN results_by_topic[parsed[1]]
                 /\ FracEq(results_by_topic[parsed[1]][parsed[2]], all_scores[f])
        /\ \A t \in DOMAIN results_by_topic : \A a \in DOMAIN results_by_topic[t] :
              \E f \in DOMAIN all_scores :
                  /\ parse_filename(f) = <<t, a>>
                  /\ FracEq(results_by_topic[t][a], all_scores[f])

\* C7: an evaluation run always finishes: whatever the loop over the outputs
\* directory has scored, nothing included, a run that has ended has written
\* diversity_scores.txt, then the chart, then "EVALUATION COMPLETE", in that
\* order.
C7_EvaluationCompletes ==
    (AfterLoop /\ ev_pc \in {"done", "crashed"}) =>
        ev_log = <<"diversity_scores.txt", "diversity_grouped_bar_chart.png",
                   "EVALUATION COMPLETE">>

=============================================================================
